---------------------------- MODULE Spec2Model ----------------------------
(***************************************************************************)
(* A model of gengores.py: the configuration merge, the profile loader,    *)
(* generate_airfoil_data, the page set-up and the panel layout loop of     *)
(* the main script.                                                        *)
(*                                                                         *)
(* Numbers.  The program computes in double precision.  The model computes *)
(* exactly, in the numbers (a + b*pi)/d with a, b, d integers, d > 0:      *)
(* the rationals (b = 0) carry the coordinates, and the multiples of pi    *)
(* carry the circumferences L = 2*pi*Y and what the layout derives from    *)
(* them.  Rounding is not modelled.  A square root is never evaluated: the *)
(* arc length t is kept as the list of the segments it sums.               *)
(***************************************************************************)
EXTENDS Integers, Sequences, FiniteSets, TLC

VARIABLES
    pc,            \* position of the main script
    args,          \* the parsed command line (cmd_arguments)
    user,          \* the user's configuration file as read (json.load)
    conf,          \* the merged configuration
    stdout,        \* what --confshow printed
    config_file,   \* gores_config.json as written by --confgen
    airfoil_data,  \* the profile table after read_xfoil
    X, Y, t, L,    \* the result of generate_airfoil_data
    dwg,           \* the elements added to the drawing, in order
    hook_x, hook_y,\* the layout cursor
    placed,        \* the calls of plot_airfoil: le_position and reported w_max
    output_file    \* the drawing file on disk

vars == <<pc, args, user, conf, stdout, config_file, airfoil_data,
          X, Y, t, L, dwg, hook_x, hook_y, placed, output_file>>

---------------------------------------------------------------------------
(* Exact arithmetic on (a + b*pi)/d.                                       *)

Abs(n) == IF n < 0 THEN -n ELSE n

RECURSIVE GCD(_, _)
GCD(m, n) == IF n = 0 THEN m ELSE GCD(n, m % n)

\* The number (a + b*pi)/d in lowest terms, d > 0.
Norm(a, b, d) ==
    LET s == IF d < 0 THEN -1 ELSE 1
        g == GCD(GCD(Abs(a), Abs(b)), Abs(d))
    IN  [a |-> (s * a) \div g, b |-> (s * b) \div g, d |-> Abs(d) \div g]

R(n, d) == Norm(n, 0, d)

I(n) == [a |-> n, b |-> 0, d |-> 1]

Zero == I(0)

Add(u, v) ==
    LET g == GCD(u.d, v.d)
        l == (u.d \div g) * v.d
    IN  Norm(u.a * (l \div u.d) + v.a * (l \div v.d),
             u.b * (l \div u.d) + v.b * (l \div v.d), l)

Neg(u) == [a |-> -u.a, b |-> -u.b, d |-> u.d]

Sub(u, v) == Add(u, Neg(v))

\* The product; one factor at least is rational, as everywhere in the program
\* (pi enters once, in L = 2*pi*Y).  Common factors are cancelled crosswise
\* before multiplying.
Mul(u, v) ==
    LET g1 == GCD(GCD(Abs(u.a), Abs(u.b)), v.d)
        g2 == GCD(GCD(Abs(v.a), Abs(v.b)), u.d)
        ua == u.a \div g1
        ub == u.b \div g1
        va == v.a \div g2
        vb == v.b \div g2
    IN  Norm(ua * va, ua * vb + ub * va, (u.d \div g2) * (v.d \div g1))

\* The quotient by a rational v # 0.
Div(u, v) == Mul(u, Norm(v.d, 0, v.a))

RECURSIVE Pow(_, _)
Pow(u, k) == IF k = 0 THEN I(1) ELSE Mul(u, Pow(u, k - 1))

\* np.pi.  pi lies strictly between PiLo and PiHi, two neighbouring fractions:
\* a fraction strictly between them has a denominator of 219 or more, and one
\* strictly between PiLo2 and PiHi a denominator of 33215 or more.
PiLo == <<333, 106>>
PiLo2 == <<103993, 33102>>
PiHi == <<355, 113>>

\* The sign of (a + b*pi)/d: -1, 0 or 1.
Sign(u) ==
    LET sa == IF u.a > 0 THEN 1 ELSE IF u.a < 0 THEN -1 ELSE 0
        sb == IF u.b > 0 THEN 1 ELSE IF u.b < 0 THEN -1 ELSE 0
    IN  IF sb = 0 THEN sa
        ELSE IF sa = 0 \/ sa = sb THEN sb
        \* mixed signs: compare pi with m/k, m = |a|, k = |b|
        ELSE IF Abs(u.a) * PiLo[2] <= PiLo[1] * Abs(u.b) THEN sb
        ELSE IF Abs(u.a) * PiHi[2] >= PiHi[1] * Abs(u.b) THEN sa
        ELSE IF Abs(u.a) * PiLo2[2] <= PiLo2[1] * Abs(u.b) THEN sb
        ELSE sa

Leq(u, v) == Sign(Sub(v, u)) >= 0

Less(u, v) == Sign(Sub(v, u)) > 0

\* np.max of a non-empty array
RECURSIVE SeqMax(_)
SeqMax(s) ==
    IF Len(s) = 1 THEN s[1]
    ELSE LET m == SeqMax(Tail(s)) IN IF Leq(m, s[1]) THEN s[1] ELSE m

RECURSIVE SeqMin(_)
SeqMin(s) ==
    IF Len(s) = 1 THEN s[1]
    ELSE LET m == SeqMin(Tail(s)) IN IF Leq(s[1], m) THEN s[1] ELSE m

---------------------------------------------------------------------------
(* The configuration.  A JSON number is a number of the model (an integer  *)
(* n is I(n)), a JSON string a string, a JSON list a sequence.             *)

\* str(date.today())
Today == "2020-01-01"

\* write_default_config_file(tofile = False)
DefaultConf ==
    [airfoil_input             |-> "naca0012.dat",
     output_file               |-> "gores.svg",
     airfoil_name              |-> "NACA0012",
     envelope_length_m         |-> R(11, 10),
     truncation_point_fraction |-> R(95, 100),
     n_points_render           |-> I(250),
     bunching_factor           |-> I(3),
     draw_base_airfoil         |-> TRUE,
     nb_gores                  |-> I(4),
     nb_gores_drawing          |-> I(3),
     drawing_info              |-> <<"ELEMENTAL GmbH",
                                     "Axisymmetric gore calculation tool v.1",
                                     "Drawing generated on " \o Today,
                                     "Scale 1:1, Paper size: A0">>,
     text_box_width            |-> I(331),
     text_box_height           |-> I(59),
     paper_width_mm            |-> I(841),
     paper_height_mm           |-> I(1189),
     paper_margin_mm           |-> I(10),
     draw_margins              |-> TRUE,
     draw_text_box             |-> TRUE,
     cutting_clearance_mm      |-> R(75, 10),
     draw_airfoil_name         |-> TRUE,
     name_font_size            |-> I(20),
     draw_centerline           |-> TRUE,
     draw_length_lines         |-> TRUE,
     length_lines_pitch_mm     |-> I(100),
     construction_lines_width  |-> R(1, 10),
     solid_lines_width         |-> R(5, 10),
     solid_lines_color         |-> "black"]

\* a merge in which the defaults win over the user's values
UpdateReversed(d, u) ==
    [k \in DOMAIN d \cup DOMAIN u |-> IF k \in DOMAIN d THEN d[k] ELSE u[k]]

\* dict.update: the keys of u replace or extend those of d
Update(d, u) ==
    [k \in DOMAIN d \cup DOMAIN u |-> IF k \in DOMAIN u THEN u[k] ELSE d[k]]

\* "if args.output:" -- None and the empty string are both false
Truthy(o) == o # <<>> /\ o # <<"">>

\* lines 219-222: the defaults, updated with the user's file, then --output
MergedConf(u, a) ==
    LET c == Update(DefaultConf, u)
    IN  IF Truthy(a.output) THEN [c EXCEPT !["output_file"] = a.output[1]]
        ELSE c

---------------------------------------------------------------------------
(* The profile loader and generate_airfoil_data.                           *)

\* read_xfoil after np.genfromtxt: rows with y > 0 get x negated, then every
\* y is negated
read_xfoil(rows) ==
    [i \in 1..Len(rows) |->
        [x |-> IF Sign(rows[i].y) > 0 THEN Neg(rows[i].x) ELSE rows[i].x,
         y |-> Neg(rows[i].y)]]

\* the condition under which InterpolatedUnivariateSpline accepts its x
StrictlyIncreasing(s) == \A i \in 1..(Len(s) - 1) : Less(s[i], s[i + 1])

Column(data, f) == [i \in 1..Len(data) |-> data[i][f]]

\* InterpolatedUnivariateSpline has degree 3.  A table of four rows leaves
\* the spline no interior knot: it is the cubic through the rows, evaluated
\* here in Lagrange's form.  The profile tables of the model have four rows.
RECURSIVE LagrangeBasis(_, _, _, _)
LagrangeBasis(data, j, k, x) ==
    IF k = 0 THEN I(1)
    ELSE IF k = j THEN LagrangeBasis(data, j, k - 1, x)
    ELSE Mul(Div(Sub(x, data[k].x), Sub(data[j].x, data[k].x)),
             LagrangeBasis(data, j, k - 1, x))

RECURSIVE SplineSum(_, _, _)
SplineSum(data, j, x) ==
    IF j = 0 THEN Zero
    ELSE Add(Mul(data[j].y, LagrangeBasis(data, j, Len(data), x)),
             SplineSum(data, j - 1, x))

\* y_tilde(x)
y_tilde(data, x) == SplineSum(data, Len(data), x)

\* a grid one sample short
SampleGridShort(trunc, b, n) ==
    IF n <= 2 THEN <<Zero>>
    ELSE [i \in 1..(n - 1) |-> Mul(trunc, Pow(R(i - 1, n - 2), b))]

\* a grid without the bunching power
SampleGridUniform(trunc, b, n) ==
    IF n = 1 THEN <<Zero>>
    ELSE [i \in 1..n |-> Mul(trunc, R(i - 1, n - 1))]

\* np.linspace(0, trunc**(1/b), n) ** b.  The i-th of the n evenly spaced
\* values is trunc**(1/b) * i/(n-1), and its b-th power trunc * (i/(n-1))**b.
SampleGrid(trunc, b, n) ==
    IF n = 1 THEN <<Zero>>
    ELSE [i \in 1..n |-> Mul(trunc, Pow(R(i - 1, n - 1), b))]

\* sqrt(dx**2 + dy**2), not evaluated
Hyp(dx, dy) == [dx |-> dx, dy |-> dy]

\* np.diff
Diff(s) == [i \in 1..(Len(s) - 1) |-> Sub(s[i + 1], s[i])]

\* np.cumsum of a list of square roots: the i-th value is the sum of the
\* first i of them, kept as the list of its terms
Cumsum(s) == [i \in 1..Len(s) |-> SubSeq(s, 1, i)]

\* an arc length without the leading 0
ArcLengthNoOrigin(Xs, Ys) ==
    LET dX == Diff(Xs)
        dY == Diff(Ys)
    IN  Cumsum([i \in 1..Len(dX) |-> Hyp(dX[i], dY[i])])

\* lines 181-182: t = hstack((0, cumsum(sqrt(diff(X)**2 + diff(Y)**2))))
ArcLength(Xs, Ys) ==
    LET dX == Diff(Xs)
        dY == Diff(Ys)
        seg == [i \in 1..Len(dX) |-> Hyp(dX[i], dY[i])]
    IN  <<<<>>>> \o Cumsum(seg)

TwoPi == [a |-> 0, b |-> 2, d |-> 1]

\* half-widths that miss the scale
ScaledYUnscaled(data, x, scale) == Mul(y_tilde(data, x), I(1000))

\* Y = y_tilde(x) * scale * 1e3
ScaledY(data, x, scale) == Mul(Mul(y_tilde(data, x), scale), I(1000))

generate_airfoil_data(c, data) ==
    LET x == SampleGrid(c["truncation_point_fraction"],
                        c["bunching_factor"].a, c["n_points_render"].a)
        scale == c["envelope_length_m"]
        Xs == [i \in 1..Len(x) |-> Mul(Mul(x[i], scale), I(1000))]
        Ys == [i \in 1..Len(x) |-> ScaledY(data, x[i], scale)]
        Ls == [i \in 1..Len(x) |-> Mul(TwoPi, Ys[i])]
    IN  [X |-> Xs, Y |-> Ys, t |-> ArcLength(Xs, Ys), L |-> Ls]

---------------------------------------------------------------------------
(* The drawing.  An element is kept with its kind, the panel it belongs to *)
(* (0: the page) and the abscissas of its points.  The ordinates are left  *)
(* out: those of a gore panel are sums of square roots.  All the dashed    *)
(* length lines of one panel start and end at the same two abscissas and   *)
(* are kept as one element.                                                *)

Element(kind, panel, xs) == [kind |-> kind, panel |-> panel, xs |-> xs]

\* '{:d}'.format(v) accepts an int only
IsInt(v) == v.b = 0 /\ v.d = 1

\* setup_page, lines 88-107
PageElements(c) ==
    LET w == c["paper_width_mm"]
        m == c["paper_margin_mm"]
        bw == c["text_box_width"]
        left == Sub(Sub(w, m), bw)
        txt == c["drawing_info"]
    IN  (IF c["draw_margins"]
         THEN <<Element("rect", 0, <<m, Add(m, Sub(w, Mul(I(2), m)))>>)>>
         ELSE <<>>)
        \o
        (IF c["draw_text_box"]
         THEN <<Element("rect", 0, <<left, Add(left, bw)>>)>>
              \o [i \in 1..Len(txt) |-> Element("text", 0, <<Add(left, I(5))>>)]
         ELSE <<>>)

\* np.arange(0, np.max(X), pitch) raises ZeroDivisionError on a zero pitch
PlotRaises(c) ==
    c["draw_length_lines"] /\ Sign(c["length_lines_pitch_mm"]) = 0

\* plot_airfoil(dwg, X, Y, le_position = (centerline, le_offset), ...):
\* the elements it adds for panel p with half-widths Ys
plot_airfoil(p, Ys, centerline, c, draw_name) ==
    LET w == Mul(R(21, 10), SeqMax(Ys))
        half == Div(w, I(2))
    IN  (IF c["draw_length_lines"]
         THEN <<Element("length_lines", p,
                        <<Sub(centerline, half), Add(centerline, half)>>)>>
         ELSE <<>>)
        \o
        (IF c["draw_centerline"]
         THEN <<Element("centerline", p, <<centerline, centerline>>)>>
         ELSE <<>>)
        \o
        <<Element("polyline", p, [i \in 1..Len(Ys) |-> Add(centerline, Ys[i])]),
          Element("polyline", p, [i \in 1..Len(Ys) |-> Sub(centerline, Ys[i])])>>
        \o
        (IF draw_name
         THEN <<Element("text", p,
                        <<Add(centerline, Div(c["name_font_size"], I(2)))>>)>>
         ELSE <<>>)

---------------------------------------------------------------------------
(* The layout cursor, lines 233-262.                                       *)

\* a cursor that starts at the margin
CursorStartAtMargin(c) == c["paper_margin_mm"]

\* hook_x = hook_y = paper_margin_mm + cutting_clearance_mm
CursorStart(c) == Add(c["paper_margin_mm"], c["cutting_clearance_mm"])

\* hook_x += np.max(...) before the panel is drawn
ToCentreline(hook, w) == Add(hook, w)

\* an advance that forgets the clearance
PastPanelNoClearance(hook, w, c) == Add(hook, w)

\* hook_x += np.max(...) + cutting_clearance_mm after it
PastPanel(hook, w, c) == Add(hook, Add(w, c["cutting_clearance_mm"]))

\* the half-widths of one gore panel: L / (2 * n_gores)
GoreHalfWidths(Ls, c) ==
    [i \in 1..Len(Ls) |-> Div(Ls[i], Mul(I(2), c["nb_gores"]))]

\* the gore panels drawn so far by the loop of line 251
GoresDone == Len(placed) - (IF conf["draw_base_airfoil"] THEN 1 ELSE 0)

---------------------------------------------------------------------------
(* The inputs.                                                             *)

MaxPoints == 3
MaxBunch == 2
MaxGoresDrawing == 2

\* the command lines of a drawing run, and --confgen
RunArgs ==
    {[confgen |-> TRUE, confshow |-> FALSE, output |-> <<>>],
     [confgen |-> FALSE, confshow |-> FALSE, output |-> <<>>],
     [confgen |-> FALSE, confshow |-> TRUE, output |-> <<"cli.svg">>]}

AllArgs ==
    [confgen : BOOLEAN, confshow : BOOLEAN,
     output : {<<>>, <<"">>, <<"cli.svg">>}]

\* configuration files that set the geometry small enough to compute
GeometryKeys ==
    {"envelope_length_m", "truncation_point_fraction", "n_points_render",
     "bunching_factor", "nb_gores_drawing"}

LayoutKeys == {"draw_base_airfoil", "cutting_clearance_mm"}

RunValues ==
    [envelope_length_m : {R(1, 5)},
     truncation_point_fraction : {R(1, 2), I(1)},
     n_points_render : {I(n) : n \in 2..MaxPoints},
     bunching_factor : {I(b) : b \in 1..MaxBunch},
     nb_gores_drawing : {I(k) : k \in 0..MaxGoresDrawing},
     draw_base_airfoil : {FALSE},
     cutting_clearance_mm : {Zero}]

\* two files that make a later stage raise
BadPaper ==
    [envelope_length_m |-> R(1, 10), truncation_point_fraction |-> I(1),
     n_points_render |-> I(2), bunching_factor |-> I(1),
     nb_gores_drawing |-> I(1), paper_width_mm |-> R(8415, 10)]

BadPitch ==
    [envelope_length_m |-> R(1, 10), truncation_point_fraction |-> I(1),
     n_points_render |-> I(2), bunching_factor |-> I(1),
     nb_gores_drawing |-> I(1), length_lines_pitch_mm |-> Zero]

BadPitchNoBase == Update(BadPitch, [draw_base_airfoil |-> FALSE])

\* a file that leaves the envelope length, the truncation point and the
\* layout to the defaults
NearDefault == [n_points_render |-> I(2), bunching_factor |-> I(1)]

\* a file that turns every optional element of the drawing off
PlainDrawing ==
    [envelope_length_m |-> R(1, 10), truncation_point_fraction |-> R(1, 2),
     n_points_render |-> I(3), bunching_factor |-> I(2),
     nb_gores_drawing |-> I(2), draw_margins |-> FALSE,
     draw_text_box |-> FALSE, draw_airfoil_name |-> FALSE,
     draw_centerline |-> FALSE, draw_length_lines |-> FALSE]

RunConfs ==
    {[k \in GeometryKeys \cup opt |-> v[k]] :
        v \in RunValues, opt \in SUBSET LayoutKeys}
    \cup {BadPaper, BadPitch, BadPitchNoBase, NearDefault, PlainDrawing}

\* configuration files for the merge alone: any subset of these keys
MergeValues ==
    [output_file |-> "user.svg", airfoil_name |-> "CLARK Y",
     nb_gores |-> I(6), draw_margins |-> FALSE,
     cutting_clearance_mm |-> I(5), drawing_info |-> <<"x">>,
     comment |-> "not an option", version |-> I(2)]

MergeConfs == {[k \in keys |-> MergeValues[k]] : keys \in SUBSET DOMAIN MergeValues}

\* profile tables: four rows "x y" on a grid of half chords and tenths
GridRows == {[x |-> R(i, 2), y |-> R(j, 10)] : i \in 0..2, j \in -1..1}

\* the abscissa read_xfoil gives a row
NormalX(r) == read_xfoil(<<r>>)[1].x

\* two rows that read_xfoil leaves in increasing order
RisingPairs ==
    {p \in GridRows \X GridRows : Less(NormalX(p[1]), NormalX(p[2]))}

\* tables the spline accepts
ValidFiles ==
    UNION {{p \o q : q \in {r \in RisingPairs :
                                Less(NormalX(p[2]), NormalX(r[1]))}} :
           p \in RisingPairs}

\* tables with a closed trailing edge, (1, 0) first and last, which
\* read_xfoil leaves at x = 1 twice
ClosedFiles ==
    {<<[x |-> I(1), y |-> Zero]>> \o p \o <<[x |-> I(1), y |-> Zero]>> :
        p \in {r \in RisingPairs : Sign(r[1].y) > 0 /\ Sign(r[2].y) < 0}}

RawFiles == ValidFiles \cup ClosedFiles

---------------------------------------------------------------------------
(* The main script.                                                        *)

InitWith(A) ==
    /\ pc = "start"
    /\ args \in A
    /\ user = <<>>
    /\ conf = <<>>
    /\ stdout = <<>>
    /\ config_file = <<>>
    /\ airfoil_data = <<>>
    /\ X = <<>> /\ Y = <<>> /\ t = <<>> /\ L = <<>>
    /\ dwg = <<>>
    /\ hook_x = Zero /\ hook_y = Zero
    /\ placed = <<>>
    /\ output_file = <<>>

Init == InitWith(RunArgs)

InitConf == InitWith(AllArgs)

\* lines 214-216: --confgen writes the defaults and exits
ConfGen ==
    /\ pc = "start" /\ args.confgen
    /\ config_file' = <<DefaultConf>>
    /\ pc' = "exit"
    /\ UNCHANGED <<args, user, conf, stdout, airfoil_data, X, Y, t, L, dwg,
                   hook_x, hook_y, placed, output_file>>

\* lines 219-224, the configuration file holding one of U
ReadConfig(U) ==
    /\ pc = "start" /\ ~args.confgen
    /\ \E u \in U :
        /\ user' = u
        /\ conf' = MergedConf(u, args)
    /\ stdout' = IF args.confshow THEN <<conf'>> ELSE <<>>
    /\ pc' = "conf"
    /\ UNCHANGED <<args, config_file, airfoil_data, X, Y, t, L, dwg,
                   hook_x, hook_y, placed, output_file>>

Abort ==
    /\ pc' = "abort"
    /\ UNCHANGED <<args, user, conf, stdout, config_file, airfoil_data,
                   X, Y, t, L, dwg, hook_x, hook_y, placed, output_file>>

\* line 220: the configuration file is missing or is not JSON
ConfigError == pc = "start" /\ ~args.confgen /\ Abort

\* line 227
ReadXfoil ==
    /\ pc = "conf"
    /\ \E f \in RawFiles : airfoil_data' = read_xfoil(f)
    /\ pc' = "foil"
    /\ UNCHANGED <<args, user, conf, stdout, config_file, X, Y, t, L, dwg,
                   hook_x, hook_y, placed, output_file>>

\* line 227: the profile file is missing
ProfileError == pc = "conf" /\ Abort

\* line 229
GenerateAirfoilData ==
    /\ pc = "foil"
    /\ StrictlyIncreasing(Column(airfoil_data, "x"))
    /\ \E r \in {generate_airfoil_data(conf, airfoil_data)} :
        X' = r.X /\ Y' = r.Y /\ t' = r.t /\ L' = r.L
    /\ pc' = "geom"
    /\ UNCHANGED <<args, user, conf, stdout, config_file, airfoil_data, dwg,
                   hook_x, hook_y, placed, output_file>>

\* line 168: the spline refuses an x that is not strictly increasing
GenerateError ==
    /\ pc = "foil"
    /\ ~StrictlyIncreasing(Column(airfoil_data, "x"))
    /\ Abort

\* a set-up that saves the page at once
SetupPageSaving ==
    /\ pc = "geom"
    /\ IsInt(conf["paper_width_mm"]) /\ IsInt(conf["paper_height_mm"])
    /\ dwg' = PageElements(conf)
    /\ output_file' = <<[name |-> conf["output_file"], content |-> dwg']>>
    /\ pc' = "page"
    /\ UNCHANGED <<args, user, conf, stdout, config_file, airfoil_data,
                   X, Y, t, L, hook_x, hook_y, placed>>

\* line 231
SetupPage ==
    /\ pc = "geom"
    /\ IsInt(conf["paper_width_mm"]) /\ IsInt(conf["paper_height_mm"])
    /\ dwg' = PageElements(conf)
    /\ pc' = "page"
    /\ UNCHANGED <<args, user, conf, stdout, config_file, airfoil_data,
                   X, Y, t, L, hook_x, hook_y, placed, output_file>>

\* lines 85-86: a paper size that is not an int
SetupPageError ==
    /\ pc = "geom"
    /\ ~(IsInt(conf["paper_width_mm"]) /\ IsInt(conf["paper_height_mm"]))
    /\ Abort

\* lines 233-234
LayoutStart ==
    /\ pc = "page"
    /\ hook_x' = CursorStart(conf)
    /\ hook_y' = CursorStart(conf)
    /\ pc' = "base"
    /\ UNCHANGED <<args, user, conf, stdout, config_file, airfoil_data,
                   X, Y, t, L, dwg, placed, output_file>>

\* one panel of half-widths Ys: lines 237-249 and 252-262
Place(Ys, draw_name) ==
    \E w \in {SeqMax(Ys)} : \E centre \in {ToCentreline(hook_x, w)} :
        /\ ~PlotRaises(conf)
        /\ dwg' = dwg \o plot_airfoil(Len(placed) + 1, Ys, centre, conf, draw_name)
        /\ placed' = Append(placed, [x |-> centre, y |-> hook_y, w |-> w])
        /\ hook_x' = PastPanel(centre, w, conf)
        /\ UNCHANGED <<args, user, conf, stdout, config_file, airfoil_data,
                       X, Y, t, L, hook_y, output_file>>

\* lines 236-249
DrawBase ==
    /\ pc = "base" /\ conf["draw_base_airfoil"]
    /\ Place(Y, conf["draw_airfoil_name"])
    /\ pc' = "gores"

\* line 236, draw_base_airfoil false
SkipBase ==
    /\ pc = "base" /\ ~conf["draw_base_airfoil"]
    /\ pc' = "gores"
    /\ UNCHANGED <<args, user, conf, stdout, config_file, airfoil_data,
                   X, Y, t, L, dwg, hook_x, hook_y, placed, output_file>>

\* lines 251-262, one turn of the loop
DrawGore ==
    /\ pc = "gores" /\ GoresDone < conf["nb_gores_drawing"].a
    /\ Place(GoreHalfWidths(L, conf), FALSE)
    /\ pc' = "gores"

\* line 133: plot_airfoil raises
PlotError ==
    /\ \/ pc = "base" /\ conf["draw_base_airfoil"]
       \/ pc = "gores" /\ GoresDone < conf["nb_gores_drawing"].a
    /\ PlotRaises(conf)
    /\ Abort

\* line 264
Save ==
    /\ pc = "gores" /\ GoresDone = conf["nb_gores_drawing"].a
    /\ output_file' = <<[name |-> conf["output_file"], content |-> dwg]>>
    /\ pc' = "done"
    /\ UNCHANGED <<args, user, conf, stdout, config_file, airfoil_data,
                   X, Y, t, L, dwg, hook_x, hook_y, placed>>

Next ==
    \/ ConfGen
    \/ ReadConfig(RunConfs)
    \/ ConfigError
    \/ ReadXfoil
    \/ ProfileError
    \/ GenerateAirfoilData
    \/ GenerateError
    \/ SetupPage
    \/ SetupPageError
    \/ LayoutStart
    \/ DrawBase
    \/ SkipBase
    \/ DrawGore
    \/ PlotError
    \/ Save

Spec == Init /\ [][Next]_vars

\* the configuration stage alone, lines 212-224, on any configuration file
NextConf ==
    \/ ConfGen
    \/ ReadConfig(MergeConfs)
    \/ ConfigError

SpecConf == InitConf /\ [][NextConf]_vars

---------------------------------------------------------------------------
(* The claims.                                                             *)

\* generate_airfoil_data has returned
Generated == Len(X) > 0

Origin == Add(conf["paper_margin_mm"], conf["cutting_clearance_mm"])

\* C1: the anchors of two consecutive panels are at least the sum of their
\* reported maximum half-widths plus the clearance apart.
C1_AnchorsApart ==
    \A i \in 1..(Len(placed) - 1) :
        Leq(Add(Add(placed[i].w, placed[i + 1].w), conf["cutting_clearance_mm"]),
            Sub(placed[i + 1].x, placed[i].x))

C1_Witness ==
    /\ pc = "done" /\ Len(placed) >= 3
    /\ Sign(conf["cutting_clearance_mm"]) > 0
    /\ Sign(placed[1].w) > 0

\* C2: the cursor starts at margin + clearance; the first panel, base
\* airfoil or gore, is anchored at margin + clearance + its w_max; every
\* anchor has the ordinate margin + clearance, which no placement changes.
C2_CursorAndAnchors ==
    /\ pc = "base" => hook_x = Origin
    /\ pc \in {"base", "gores", "done"} => hook_y = Origin
    /\ \A i \in 1..Len(placed) : placed[i].y = Origin
    /\ Len(placed) >= 1 => placed[1].x = Add(Origin, placed[1].w)

C2_Witness ==
    /\ pc = "done" /\ Len(placed) >= 2
    /\ ~conf["draw_base_airfoil"]
    /\ Sign(conf["cutting_clearance_mm"]) > 0
    /\ Sign(placed[1].w) > 0

\* C3: for a profile table with strictly increasing x, X is strictly
\* increasing and X, Y, T and L all have n_points_render values.
C3_GridShape ==
    Generated =>
        /\ Len(X) = conf["n_points_render"].a
        /\ Len(Y) = Len(X) /\ Len(t) = Len(X) /\ Len(L) = Len(X)
        /\ StrictlyIncreasing(X)

C3_Witness == pc = "geom" /\ Len(X) >= 3

\* C4: T[0] is 0, and each later value is its predecessor plus the
\* Euclidean distance between the two stations, which is never negative:
\* T does not decrease.
C4_ArcLength ==
    Generated =>
        /\ t[1] = <<>>
        /\ \A i \in 1..(Len(X) - 1) :
               t[i + 1] = Append(t[i], Hyp(Sub(X[i + 1], X[i]), Sub(Y[i + 1], Y[i])))

C4_Witness == pc = "geom" /\ Len(t) >= 3 /\ Sign(Y[2]) # 0

\* C5: with a bunching factor above 1 the spacing of consecutive X grows
\* strictly along the sequence.
C5_Bunching ==
    (Generated /\ conf["bunching_factor"].a > 1) =>
        \A i \in 1..(Len(X) - 2) :
            Less(Sub(X[i + 1], X[i]), Sub(X[i + 2], X[i + 1]))

C5_Witness == pc = "geom" /\ conf["bunching_factor"].a > 1 /\ Len(X) >= 3

\* twice a sum of square roots: every segment doubled
Twice(sum) ==
    [k \in 1..Len(sum) |-> Hyp(Mul(I(2), sum[k].dx), Mul(I(2), sum[k].dy))]

\* C6: generate_airfoil_data on the same table and options with
\* envelope_length_m doubled returns every X, Y, L and T doubled.
C6_Scaling ==
    pc = "geom" =>
        \A r \in {generate_airfoil_data(
                     [conf EXCEPT !["envelope_length_m"] = Mul(I(2), @)],
                     airfoil_data)} :
            /\ Len(r.X) = Len(X) /\ Len(r.t) = Len(t)
            /\ \A i \in 1..Len(X) :
                /\ r.X[i] = Mul(I(2), X[i])
                /\ r.Y[i] = Mul(I(2), Y[i])
                /\ r.L[i] = Mul(I(2), L[i])
            /\ \A i \in 1..Len(t) : r.t[i] = Twice(t[i])

C6_Witness == pc = "geom" /\ Len(X) >= 3 /\ Sign(Y[2]) # 0

\* the panels a run places: the base airfoil, if drawn, and the gores
PanelsToPlace ==
    (IF conf["draw_base_airfoil"] THEN 1 ELSE 0) + conf["nb_gores_drawing"].a

\* C7: the drawing file is written only as the last step of a run, after
\* every panel has been placed; a run that aborts has not written it.
C7_AllOrNothing ==
    /\ pc # "done" => output_file = <<>>
    /\ output_file # <<>> =>
        /\ Len(placed) = PanelsToPlace
        /\ output_file[1].content = dwg

C7_Witness == pc = "done" /\ output_file # <<>> /\ Len(placed) >= 2

\* C8 as stated: the merged configuration has every default key, the
\* user's value for each key of the user's file and the default for each
\* other key.
C8_MergeAsStated ==
    pc = "conf" =>
        /\ DOMAIN DefaultConf \subseteq DOMAIN conf
        /\ \A k \in DOMAIN user : conf[k] = user[k]
        /\ \A k \in DOMAIN DefaultConf \ DOMAIN user : conf[k] = DefaultConf[k]

\* C8, amended: as stated, but for output_file when a non-empty --output
\* is given, which then has the value of --output; unknown keys are kept.
C8_Merge ==
    pc = "conf" =>
        /\ DOMAIN conf = DOMAIN DefaultConf \cup DOMAIN user
        /\ \A k \in DOMAIN conf :
            conf[k] = IF k = "output_file" /\ args.output \notin {<<>>, <<"">>}
                      THEN args.output[1]
                      ELSE IF k \in DOMAIN user THEN user[k]
                      ELSE DefaultConf[k]

C8_Witness ==
    /\ pc = "conf"
    /\ args.output = <<"cli.svg">>
    /\ "comment" \in DOMAIN user /\ "output_file" \in DOMAIN user
    /\ "nb_gores" \notin DOMAIN user

\* C9: every L[i] is at least 0.
C9_CircumferenceNonNegative ==
    Generated => \A i \in 1..Len(L) : Sign(L[i]) >= 0

\* the abscissas of the polylines and length lines drawn for panel p
RECURSIVE OutlineXs(_, _)
OutlineXs(d, p) ==
    IF d = <<>> THEN <<>>
    ELSE (IF d[1].panel = p /\ d[1].kind \in {"polyline", "length_lines"}
          THEN d[1].xs ELSE <<>>) \o OutlineXs(Tail(d), p)

\* C10: the polylines and length lines of a panel lie entirely to the left
\* of those of the next panel.
C10_NoOverlap ==
    \A i \in 1..(Len(placed) - 1) :
        Leq(SeqMax(OutlineXs(dwg, i)), SeqMin(OutlineXs(dwg, i + 1)))

=============================================================================
